---------------------------- MODULE Spec2Model ----------------------------
(***************************************************************************)
(* A model of package errm (github.com/maxbolgarin/errm): the error        *)
(* constructors New/Errorf/Wrap/Wrapf, the chain inspection Is, JoinErrors,*)
(* the aggregation containers List and Set with their composite error     *)
(* views listError/setError, and the mutex-guarded SafeList/SafeSet.       *)
(*                                                                         *)
(* Strings are sequences of one-character strings, so that concatenation,  *)
(* the "; " separator and the empty string are what they are in the code.  *)
(* Stack traces are not modelled: no operation modelled here reads them.   *)
(***************************************************************************)
EXTENDS Integers, Sequences, FiniteSets, TLC

VARIABLES
    kind,      \* which constructor made the container: "list" (NewList) or "set" (NewSet)
    list,      \* List.errs: the ordered slice of errors
    set,       \* Set.errs: the map from rendered message to error
    view,      \* TRUE once the caller holds a composite obtained from Err()
    last,      \* the operation executed last, with its argument and its result
    hist,      \* history: the non-nil errors inserted since the last Clear, in order;
               \* for an error chain, the errors the caller held before, base first
    args,      \* the argument sequence of a direct JoinErrors call
    joined,    \* the result of that call (NotCalled before it)
    mu,        \* sync.Mutex of the SafeList/SafeSet: 0 when free, else the holder
    pc,        \* per goroutine: its position inside a Safe* method or a view read
    op,        \* per goroutine: the method it is executing, with its argument
    loc,       \* per goroutine: the value it loaded from the member storage
    calls,     \* per goroutine: the number of method calls it has completed
    cur        \* the error value a caller of the construction API holds (nil at first)

contVars == <<kind, list, set>>
seqVars  == <<view, last, hist>>
joinVars == <<args, joined>>
safeVars == <<mu, pc, op, loc, calls>>
errVars  == <<cur>>
vars     == <<kind, list, set, view, last, hist, args, joined, mu, pc, op, loc, calls, cur>>

----------------------------------------------------------------------------
(* Bounds of the model.                                                    *)

\* The most insertions the sequential model makes between two Clears.
MaxLen == 3
\* The longest argument sequence handed to JoinErrors directly.
MaxArgs == 3
\* The number of method calls each goroutine of the concurrent model makes.
MaxCalls == 2
\* the most fields and format arguments of one construction call
MaxFields == 5
\* the most layers wrapped over a base error
MaxDepth == 2
\* The number of goroutines of the concurrent model.
NumGoroutines == 2

----------------------------------------------------------------------------
(* Strings.                                                                *)

EmptyStr == << >>
StrA     == <<"a">>
StrB     == <<"b">>
StrFirst  == <<"f", "i", "r", "s", "t", " ", "e", "r", "r", "o", "r">>
StrSecond == <<"s", "e", "c", "o", "n", "d", " ", "e", "r", "r", "o", "r">>
\* "; " as appended by JoinErrors: b = append(b, ';', ' ')
JoinSep  == <<";", " ">>
\* ": " between a wrapping message and its cause in eris' rendering
WrapSep  == <<":", " ">>

\* strings.Count(msg, "%")
RECURSIVE CountPercent(_)
CountPercent(s) ==
    IF s = << >> THEN 0
    ELSE (IF Head(s) = "%" THEN 1 ELSE 0) + CountPercent(Tail(s))

----------------------------------------------------------------------------
(* Values of type any handed as fields or format arguments.                *)

\* A Go string value; fmt.Sprint renders it as its characters.
StrVal(s) == [t |-> "string", s |-> s]
\* A Go int value; fmt.Sprint renders it as its digits.
IntVal(s) == [t |-> "int", s |-> s]
\* fmt.Sprint(v)
Sprint(v) == v.s

----------------------------------------------------------------------------
(* Error values.                                                           *)

\* The nil error.
NIL == [kind |-> "nil"]
\* A foreign error made by errors.New(msg): a pointer, so it has an identity.
Ext(id, msg) == [kind |-> "ext", id |-> id, msg |-> msg]
\* A foreign wrapper made by fmt.Errorf("<prefix>: %w", err): a pointer to a
\* message fixed at creation and the wrapped error, which Unwrap returns.
FmtW(id, msg, err) == [kind |-> "fmtw", id |-> id, msg |-> msg, err |-> err]
\* eris' *rootError: a message and, when it wraps a foreign error, that error.
Root(msg, ext) == [kind |-> "root", msg |-> msg, ext |-> ext]
\* eris' *wrapError: a message over an eris error.
WrapErr(msg, err) == [kind |-> "wrap", msg |-> msg, err |-> err]
\* The composite views: each holds a pointer to its container.
ListView == [kind |-> "listError"]
SetView  == [kind |-> "setError"]
\* What a call that panics yields instead of a result.
PANIC == [kind |-> "panic"]

\* newError: errorImpl{err: err}
newError(err) == [kind |-> "errm", err |-> err]

----------------------------------------------------------------------------
(* The trace provider (github.com/rotisserie/eris), as far as the package  *)
(* uses it: rendering, wrapping and chain equality.                        *)

\* eris.ToString(err, false): the messages from the outermost wrapper to the
\* root, ": " between them, then the wrapped foreign error's message.
RECURSIVE erisToString(_)
erisToString(e) ==
    CASE e.kind = "wrap" -> e.msg \o WrapSep \o erisToString(e.err)
      [] e.kind = "root" ->
            IF e.ext = NIL THEN e.msg ELSE e.msg \o WrapSep \o e.ext.msg
      [] e.kind = "ext"  -> e.msg
      [] e.kind = "fmtw" -> e.msg
      [] OTHER           -> EmptyStr

\* eris.New(msg)
erisNew(msg) == Root(msg, NIL)

\* eris.Wrap(err, msg) for a non-nil err: an eris error gets a wrapError on
\* top, any other error becomes the ext of a new rootError.
erisWrap(err, msg) ==
    IF err.kind \in {"root", "wrap"} THEN WrapErr(msg, err) ELSE Root(msg, err)

\* errors.Unwrap as eris.Unwrap does it: one step down the chain, NIL at its end.
erisUnwrap(e) ==
    CASE e.kind = "wrap" -> e.err
      [] e.kind = "root" -> e.ext
      [] e.kind = "fmtw" -> e.err
      [] OTHER           -> NIL

\* (*rootError).Is / (*wrapError).Is: equal messages for a target of the same
\* type, else the message against the target's rendering.  (A composite as
\* target is asked of foreign errors only, which have no such method.)
erisLayerIs(e, target) ==
    IF e.kind \notin {"root", "wrap"} THEN FALSE
    ELSE IF target.kind = e.kind THEN e.msg = target.msg
    ELSE e.msg = erisToString(target)

\* eris.Is(err, target): target nil matches only nil; else walk err's chain.
RECURSIVE erisIs(_, _)
erisIs(err, target) ==
    IF target = NIL THEN err = NIL
    ELSE IF err = target THEN TRUE
    ELSE IF erisLayerIs(err, target) THEN TRUE
    ELSE IF erisUnwrap(err) = NIL THEN FALSE
    ELSE erisIs(erisUnwrap(err), target)

----------------------------------------------------------------------------
(* errorImpl and the construction API.                                     *)

\* eris.As(err, &target): the first error in err's chain that has one of the
\* kinds wanted, NIL when there is none.  The chain goes on through Unwrap,
\* which a foreign wrapper has and errorImpl and the composites have not.
RECURSIVE erisAs(_, _)
erisAs(err, kinds) ==
    IF err.kind \in kinds THEN err
    ELSE IF err.kind = "fmtw" THEN erisAs(err.err, kinds)
    ELSE NIL

\* unwrap: the eris error inside the errorImpl found in err's chain, err as it
\* is when there is none.
unwrap(err) ==
    IF erisAs(err, {"errm"}) # NIL THEN erisAs(err, {"errm"}).err ELSE err

\* buildErrorMessage: base, then " key=value" for each complete pair whose
\* key is a string.
RECURSIVE buildLoop(_, _, _)
\* A loop that ends at a key that is no string, where the code goes on.
C18_Mutant_buildLoop(out, fields, i) ==
    IF i > Len(fields) \/ Len(fields) <= i \/ fields[i].t # "string" THEN out
    ELSE buildLoop(out \o <<" ">> \o fields[i].s \o <<"=">> \o Sprint(fields[i + 1]),
                   fields, i + 2)

buildLoop(out, fields, i) ==
    IF i > Len(fields) THEN out
    ELSE IF Len(fields) <= i THEN out
    ELSE IF fields[i].t # "string" THEN buildLoop(out, fields, i + 2)
    ELSE buildLoop(out \o <<" ">> \o fields[i].s \o <<"=">> \o Sprint(fields[i + 1]),
                   fields, i + 2)

buildErrorMessage(baseErr, fields) ==
    IF Len(fields) < 2 THEN baseErr ELSE buildLoop(baseErr, fields, 1)

\* separateArgsAndFields: <<args, fields>>
separateArgsAndFields(msg, a) ==
    LET numberOfFormats == CountPercent(msg) IN
    IF numberOfFormats = 0 THEN << << >>, a >>
    ELSE IF numberOfFormats <= Len(a)
         THEN << SubSeq(a, 1, numberOfFormats), SubSeq(a, numberOfFormats + 1, Len(a)) >>
         ELSE << a, << >> >>

\* fmt.Sprintf's "%!(EXTRA type=value, ...)" for the arguments no verb used.
RECURSIVE fmtExtra(_, _)
fmtExtra(a, j) ==
    IF j > Len(a) THEN <<")">>
    ELSE <<a[j].t, "=">> \o Sprint(a[j])
         \o (IF j < Len(a) THEN <<",", " ">> ELSE << >>) \o fmtExtra(a, j + 1)

\* fmt.Sprintf(format, a...): %s takes the next argument, %% is a percent sign.
RECURSIVE fmtLoop(_, _, _, _, _)
fmtLoop(f, i, a, j, out) ==
    IF i > Len(f)
    THEN IF j <= Len(a) THEN out \o <<"%!(EXTRA ">> \o fmtExtra(SubSeq(a, j, Len(a)), 1)
         ELSE out
    ELSE IF f[i] # "%" THEN fmtLoop(f, i + 1, a, j, out \o <<f[i]>>)
    ELSE IF i = Len(f) THEN fmtLoop(f, i + 1, a, j, out \o <<"%!(NOVERB)">>)
    ELSE IF f[i + 1] = "%" THEN fmtLoop(f, i + 2, a, j, out \o <<"%">>)
    ELSE IF j > Len(a)
         THEN fmtLoop(f, i + 2, a, j, out \o <<"%!", f[i + 1], "(MISSING)">>)
    ELSE IF f[i + 1] \in {"s", "v"} THEN fmtLoop(f, i + 2, a, j + 1, out \o Sprint(a[j]))
    ELSE fmtLoop(f, i + 2, a, j + 1,
                 out \o <<"%!", f[i + 1], "(", a[j].t, "=">> \o Sprint(a[j]) \o <<")">>)

Sprintf(format, a) == fmtLoop(format, 1, a, 1, << >>)

\* New(msg, fields...)
New(msg, fields) == newError(erisNew(buildErrorMessage(msg, fields)))

\* Errorf(msg, args...)
Errorf(msg, a) ==
    LET sep == separateArgsAndFields(msg, a) IN
    IF Len(sep[1]) = 0 THEN New(msg, sep[2])
    ELSE newError(erisNew(Sprintf(buildErrorMessage(msg, sep[2]), sep[1])))

\* A Wrap that returns nil for a nil cause, as eris.Wrap does.
C17_Mutant_Wrap(err, msg, fields) ==
    IF err = NIL THEN NIL
    ELSE newError(erisWrap(unwrap(err), buildErrorMessage(msg, fields)))

\* Wrap(err, msg, fields...)
Wrap(err, msg, fields) ==
    IF err = NIL THEN New(msg, fields)
    ELSE newError(erisWrap(unwrap(err), buildErrorMessage(msg, fields)))

\* A Wrapf that hands the arguments to Wrap as fields when the message has no
\* placeholder.
C16_Mutant_Wrapf(err, msg, a) ==
    LET sep == separateArgsAndFields(msg, a) IN
    IF err = NIL THEN Errorf(msg, a)
    ELSE IF Len(sep[1]) = 0 THEN Wrap(err, msg, sep[2])
    ELSE newError(erisWrap(unwrap(err), Sprintf(buildErrorMessage(msg, sep[2]), sep[1])))

\* Wrapf(err, msg, args...): when the split leaves no format arguments it calls
\* Wrap with the (empty) format arguments as its fields.
Wrapf(err, msg, a) ==
    LET sep == separateArgsAndFields(msg, a) IN
    IF err = NIL THEN Errorf(msg, a)
    ELSE IF Len(sep[1]) = 0 THEN Wrap(err, msg, sep[1])
    ELSE newError(erisWrap(unwrap(err), Sprintf(buildErrorMessage(msg, sep[2]), sep[1])))

\* err.Error() of an error that is no composite view: errorImpl.Error renders
\* its eris error, a foreign error has its message.
MsgOf(e) == IF e.kind = "errm" THEN erisToString(e.err) ELSE erisToString(e)


----------------------------------------------------------------------------
(* JoinErrors and the Error method.                                        *)

\* A string returned by a call that returns normally.
Str(s) == [kind |-> "string", s |-> s]

\* The loop of JoinErrors over errs[i..]: nil errors and empty messages are
\* skipped; the separator is appended when the index is not the first one.
RECURSIVE joinLoop(_, _, _)
joinLoop(errs, i, b) ==
    IF i > Len(errs) THEN b
    ELSE IF errs[i] = NIL THEN joinLoop(errs, i + 1, b)
    ELSE IF MsgOf(errs[i]) = EmptyStr THEN joinLoop(errs, i + 1, b)
    ELSE joinLoop(errs, i + 1,
                  (IF i > 1 THEN b \o JoinSep ELSE b) \o MsgOf(errs[i]))

\* JoinErrors without its test of len(b): it wraps an empty text too.
C7_Mutant_JoinErrors(errs) == New(joinLoop(errs, 1, << >>), << >>)

\* JoinErrors(errs...): New(string(b)) when b is not empty, else nil.
JoinErrors(errs) ==
    LET b == joinLoop(errs, 1, << >>) IN
    IF Len(b) > 0 THEN New(b, << >>) ELSE NIL

\* e.Error() on an error interface value: a nil interface has no method to
\* call, the call panics (nil pointer dereference).
CallError(e) == IF e = NIL THEN PANIC ELSE Str(MsgOf(e))

\* listError.Error()
listErrorError(errs) ==
    IF Len(errs) = 0 THEN Str(EmptyStr) ELSE CallError(JoinErrors(errs))

----------------------------------------------------------------------------
(* Set.errs, a Go map: a function from its keys to its values.  A range    *)
(* over a map visits the entries in an order the language leaves open.     *)

\* A map assignment that keeps the value a key already has.
C3_Mutant_MapPut(m, key, err) ==
    [k \in (DOMAIN m) \cup {key} |-> IF k \in DOMAIN m THEN m[k] ELSE err]

\* e.errs[key] = err
MapPut(m, key, err) ==
    [k \in (DOMAIN m) \cup {key} |-> IF k = key THEN err ELSE m[k]]

\* The orders in which a range over m may visit its keys.
MapOrders(m) ==
    LET n == Cardinality(DOMAIN m) IN
    {p \in [1..n -> DOMAIN m] : \A i, j \in 1..n : i # j => p[i] # p[j]}

\* The values of m as visited in order p.
MapValues(m, p) == [i \in 1..Len(p) |-> m[p[i]]]

\* setError.Error(), the range over the map visiting the keys in order p.
setErrorError(m, p) ==
    IF Cardinality(DOMAIN m) = 0 THEN Str(EmptyStr)
    ELSE CallError(JoinErrors(MapValues(m, p)))

----------------------------------------------------------------------------
(* Is, List.Has and Set.Has.  c is the members of the container a composite *)
(* view points to, in the order a range visits them.                        *)

RECURSIVE Is(_, _, _, _)
RECURSIVE Has(_, _, _, _)
RECURSIVE hasLoop(_, _, _, _, _)
RECURSIVE hasTargets(_, _, _, _)

\* The loop of Is over its extra targets.
RECURSIVE isTargets(_, _, _)
isTargets(err, targets, j) ==
    IF j > Len(targets) THEN FALSE
    ELSE IF erisIs(unwrap(err), unwrap(targets[j])) THEN TRUE
    ELSE isTargets(err, targets, j + 1)

\* strings.Contains(text, s)
Substring(s, text) ==
    \E i \in 0..(Len(text) - Len(s)) : SubSeq(text, i + 1, i + Len(s)) = s

\* Contains(err, target)
Contains(err, target) ==
    err # NIL /\ Substring(target, erisToString(unwrap(err)))

\* ContainsErr(err, target)
ContainsErr(err, target) ==
    target # NIL /\ Contains(err, erisToString(unwrap(target)))

\* Check(err): eris.As(err, &errorImpl{}), an errorImpl anywhere in err's chain.
Check(err) == erisAs(err, {"errm"}) # NIL

\* An Is for which a nil target matches every error.
C13_Mutant_Is(err, target, targets, c) ==
    target = NIL \/ erisIs(unwrap(err), unwrap(target))

\* Is(err, target, targets...)
Is(err, target, targets, c) ==
    IF erisAs(err, {"setError"}) # NIL THEN Has(c, target, targets, c)
    ELSE IF erisAs(err, {"listError"}) # NIL THEN Has(c, target, targets, c)
    ELSE LET res == erisIs(unwrap(err), unwrap(target)) IN
         IF ~res /\ Len(targets) > 0 /\ isTargets(err, targets, 1) THEN TRUE
         ELSE res

\* The inner loop of Has: member e against each extra target.
hasTargets(e, errs, j, c) ==
    IF j > Len(errs) THEN FALSE
    ELSE IF Is(e, errs[j], << >>, c) THEN TRUE
    ELSE hasTargets(e, errs, j + 1, c)

\* The outer loop of Has over members[i..].
hasLoop(members, i, err, errs, c) ==
    IF i > Len(members) THEN FALSE
    ELSE IF Is(members[i], err, << >>, c) THEN TRUE
    ELSE IF hasTargets(members[i], errs, 1, c) THEN TRUE
    ELSE hasLoop(members, i + 1, err, errs, c)

\* A Has that looks at its first target only.
C2_Mutant_Has(members, err, errs, c) == hasLoop(members, 1, err, << >>, c)

\* (*List).Has / (*Set).Has over the members in range order.
Has(members, err, errs, c) == hasLoop(members, 1, err, errs, c)

----------------------------------------------------------------------------
(* List.                                                                   *)

\* An Add that skips an error the list holds already.
C4_Mutant_ListAdd(errs, err) ==
    IF err = NIL \/ (\E i \in 1..Len(errs) : errs[i] = err) THEN errs ELSE Append(errs, err)

\* An Add without the test for nil.
C26_Mutant_ListAdd(errs, err) == Append(errs, err)

ListAdd(errs, err) == IF err = NIL THEN errs ELSE Append(errs, err)
ListNew(errs, msg, fields) == Append(errs, New(msg, fields))
ListErrorf(errs, format, a) == Append(errs, Errorf(format, a))
ListWrap(errs, err, format, fields) == Append(errs, Wrap(err, format, fields))
ListWrapf(errs, err, format, a) == Append(errs, Wrapf(err, format, a))
ListHas(errs, err, errs2) == Has(errs, err, errs2, errs)
ListErr(errs) == IF Len(errs) = 0 THEN NIL ELSE ListView
ListEmpty(errs) == Len(errs) = 0
ListNotEmpty(errs) == Len(errs) # 0
\* A Clear that leaves the members in place.
C1_Mutant_ListClear(errs) == errs
ListClear(errs) == << >>
ListLen(errs) == Len(errs)

----------------------------------------------------------------------------
(* Set.                                                                    *)

SetAdd(m, err) == IF err = NIL THEN m ELSE MapPut(m, MsgOf(err), err)
SetNew(m, msg, fields) == MapPut(m, MsgOf(New(msg, fields)), New(msg, fields))
SetErrorf(m, format, a) == MapPut(m, MsgOf(Errorf(format, a)), Errorf(format, a))
SetWrap(m, err, format, fields) ==
    MapPut(m, MsgOf(Wrap(err, format, fields)), Wrap(err, format, fields))
SetWrapf(m, err, format, a) ==
    MapPut(m, MsgOf(Wrapf(err, format, a)), Wrapf(err, format, a))
SetHas(m, p, err, errs2) == Has(MapValues(m, p), err, errs2, MapValues(m, p))
SetErr(m) == IF Cardinality(DOMAIN m) = 0 THEN NIL ELSE SetView
SetEmpty(m) == Cardinality(DOMAIN m) = 0
SetClear(m) == << >>
SetLen(m) == Cardinality(DOMAIN m)

----------------------------------------------------------------------------
(* The inputs the model draws from.                                        *)

FieldKV == <<StrVal(<<"k">>), StrVal(<<"v">>)>>
FmtS    == <<"%", "s">>

\* Errors handed to Add and used as causes and targets: nil, foreign errors
\* with message "a" (two of them, so that identity and message differ), and
\* library errors with an empty message and with messages "a" and "b".
ErrA1   == Ext(1, StrA)
ErrA2   == Ext(2, StrA)
AddErrs == {NIL, ErrA1, New(EmptyStr, << >>)}
\* <<msg, fields>> for New
NewInputs == {<<EmptyStr, << >>>>, <<StrA, << >>>>, <<StrB, FieldKV>>}
\* <<format, args>> for Errorf
ErrorfInputs == {<<StrA, << >>>>, <<FmtS, <<StrVal(StrA)>>>>}
\* <<err, msg, fields>> for Wrap
WrapInputs == {<<NIL, StrA, << >>>>, <<ErrA1, StrB, << >>>>}
\* <<err, format, args>> for Wrapf
WrapfInputs == {<<NIL, FmtS, <<StrVal(StrA)>>>>, <<ErrA1, FmtS, <<StrVal(StrB)>>>>}
\* Targets of Has and Is.
Targets == {NIL, ErrA1, New(StrA, << >>), New(StrB, << >>)}
\* Extra targets of Has and Is.
TargetSeqs == {<< >>, <<New(StrB, << >>)>>, <<NIL, ErrA2>>,
               <<ErrA2, New(StrA, << >>)>>}

Goroutines == 1..NumGoroutines

----------------------------------------------------------------------------
(* The sequential program: one goroutine owns a container made by NewList  *)
(* or NewSet and calls its methods, and the Error method of the composite  *)
(* it got from Err, in any order.  A panic ends the program.               *)

None    == [kind |-> "none"]
Bool(b) == [kind |-> "bool", b |-> b]
IntRet(n)  == [kind |-> "int", n |-> n]
NotCalled == [kind |-> "notcalled"]

Did(o, a, r) == [op |-> o, arg |-> a, ret |-> r]

\* The parts of the state the sequential program does not use.
JoinIdle == args = << >> /\ joined = NotCalled
\* No error value built yet.
ErrIdle == cur = [kind |-> "nil"]
SafeIdle ==
    /\ mu = 0
    /\ pc = [g \in Goroutines |-> "idle"]
    /\ op = [g \in Goroutines |-> None]
    /\ loc = [g \in Goroutines |-> None]
    /\ calls = [g \in Goroutines |-> 0]

\* NewList() / NewSet()
Init ==
    /\ kind \in {"list", "set"}
    /\ list = << >>
    /\ set = << >>
    /\ view = FALSE
    /\ last = Did(IF kind = "list" THEN "NewList" ELSE "NewSet", NIL, None)
    /\ hist = << >>
    /\ JoinIdle
    /\ SafeIdle
    /\ ErrIdle

Running == last.ret # PANIC
IsList == kind = "list" /\ Running /\ Len(list) < MaxLen
IsSet  == kind = "set" /\ Running /\ Len(hist) < MaxLen

\* The history variable follows the operation just recorded in last.
Recorded ==
    hist' = CASE last'.op = "Clear" -> << >>
              [] last'.arg = NIL    -> hist
              [] OTHER              -> Append(hist, last'.arg)

\* The container's members in range order p (p matters for a Set only).
Members(p) == IF kind = "list" THEN list ELSE MapValues(set, p)
Orders == IF kind = "list" THEN {<< >>} ELSE MapOrders(set)

DoListAdd ==
    /\ IsList
    /\ \E e \in AddErrs :
        /\ list' = ListAdd(list, e)
        /\ last' = Did("Add", e, None)
    /\ Recorded
    /\ UNCHANGED <<kind, set, view, joinVars, errVars, safeVars>>

DoListNew ==
    /\ IsList
    /\ \E inp \in NewInputs :
        /\ list' = ListNew(list, inp[1], inp[2])
        /\ last' = Did("New", New(inp[1], inp[2]), None)
    /\ Recorded
    /\ UNCHANGED <<kind, set, view, joinVars, errVars, safeVars>>

DoListErrorf ==
    /\ IsList
    /\ \E inp \in ErrorfInputs :
        /\ list' = ListErrorf(list, inp[1], inp[2])
        /\ last' = Did("Errorf", Errorf(inp[1], inp[2]), None)
    /\ Recorded
    /\ UNCHANGED <<kind, set, view, joinVars, errVars, safeVars>>

DoListWrap ==
    /\ IsList
    /\ \E inp \in WrapInputs :
        /\ list' = ListWrap(list, inp[1], inp[2], inp[3])
        /\ last' = Did("Wrap", Wrap(inp[1], inp[2], inp[3]), None)
    /\ Recorded
    /\ UNCHANGED <<kind, set, view, joinVars, errVars, safeVars>>

DoListWrapf ==
    /\ IsList
    /\ \E inp \in WrapfInputs :
        /\ list' = ListWrapf(list, inp[1], inp[2], inp[3])
        /\ last' = Did("Wrapf", Wrapf(inp[1], inp[2], inp[3]), None)
    /\ Recorded
    /\ UNCHANGED <<kind, set, view, joinVars, errVars, safeVars>>

DoListClear ==
    /\ kind = "list" /\ Running
    /\ list' = ListClear(list)
    /\ last' = Did("Clear", NIL, None)
    /\ Recorded
    /\ UNCHANGED <<kind, set, view, joinVars, errVars, safeVars>>

DoSetAdd ==
    /\ IsSet
    /\ \E e \in AddErrs :
        /\ set' = SetAdd(set, e)
        /\ last' = Did("Add", e, None)
    /\ Recorded
    /\ UNCHANGED <<kind, list, view, joinVars, errVars, safeVars>>

DoSetNew ==
    /\ IsSet
    /\ \E inp \in NewInputs :
        /\ set' = SetNew(set, inp[1], inp[2])
        /\ last' = Did("New", New(inp[1], inp[2]), None)
    /\ Recorded
    /\ UNCHANGED <<kind, list, view, joinVars, errVars, safeVars>>

DoSetErrorf ==
    /\ IsSet
    /\ \E inp \in ErrorfInputs :
        /\ set' = SetErrorf(set, inp[1], inp[2])
        /\ last' = Did("Errorf", Errorf(inp[1], inp[2]), None)
    /\ Recorded
    /\ UNCHANGED <<kind, list, view, joinVars, errVars, safeVars>>

DoSetWrap ==
    /\ IsSet
    /\ \E inp \in WrapInputs :
        /\ set' = SetWrap(set, inp[1], inp[2], inp[3])
        /\ last' = Did("Wrap", Wrap(inp[1], inp[2], inp[3]), None)
    /\ Recorded
    /\ UNCHANGED <<kind, list, view, joinVars, errVars, safeVars>>

DoSetWrapf ==
    /\ IsSet
    /\ \E inp \in WrapfInputs :
        /\ set' = SetWrapf(set, inp[1], inp[2], inp[3])
        /\ last' = Did("Wrapf", Wrapf(inp[1], inp[2], inp[3]), None)
    /\ Recorded
    /\ UNCHANGED <<kind, list, view, joinVars, errVars, safeVars>>

DoSetClear ==
    /\ kind = "set" /\ Running
    /\ set' = SetClear(set)
    /\ last' = Did("Clear", NIL, None)
    /\ Recorded
    /\ UNCHANGED <<kind, list, view, joinVars, errVars, safeVars>>

\* A read that empties the container.
C27_Mutant_Observe(o, a, r) ==
    /\ Running
    /\ last' = Did(o, a, r)
    /\ list' = << >> /\ set' = << >>
    /\ UNCHANGED <<kind, hist, joinVars, errVars, safeVars>>

\* The calls that only read the container.
Observe(o, a, r) ==
    /\ Running
    /\ last' = Did(o, a, r)
    /\ UNCHANGED <<contVars, hist, joinVars, errVars, safeVars>>

DoListErr ==
    /\ kind = "list"
    /\ Observe("Err", NIL, ListErr(list))
    /\ view' = (view \/ ListErr(list) # NIL)

DoSetErr ==
    /\ kind = "set"
    /\ Observe("Err", NIL, SetErr(set))
    /\ view' = (view \/ SetErr(set) # NIL)

DoListLen == kind = "list" /\ Observe("Len", NIL, IntRet(ListLen(list))) /\ UNCHANGED view

DoSetLen == kind = "set" /\ Observe("Len", NIL, IntRet(SetLen(set))) /\ UNCHANGED view

DoListEmpty ==
    kind = "list" /\ Observe("Empty", NIL, Bool(ListEmpty(list))) /\ UNCHANGED view

DoSetEmpty ==
    kind = "set" /\ Observe("Empty", NIL, Bool(SetEmpty(set))) /\ UNCHANGED view

DoListNotEmpty ==
    kind = "list" /\ Observe("NotEmpty", NIL, Bool(ListNotEmpty(list))) /\ UNCHANGED view

DoListHas ==
    /\ kind = "list"
    /\ \E t \in Targets, ts \in TargetSeqs :
        Observe("Has", NIL, Bool(ListHas(list, t, ts)))
    /\ UNCHANGED view

DoSetHas ==
    /\ kind = "set"
    /\ \E t \in Targets, ts \in TargetSeqs, p \in MapOrders(set) :
        Observe("Has", NIL, Bool(SetHas(set, p, t, ts)))
    /\ UNCHANGED view

\* An Error() that misses the member inserted last.
C11_Mutant_DoListViewError ==
    /\ kind = "list" /\ view
    /\ Observe("Error", NIL, listErrorError(SubSeq(list, 1, Len(list) - 1)))
    /\ UNCHANGED view

\* Error() on the composite the caller holds.
DoListViewError ==
    /\ kind = "list" /\ view
    /\ Observe("Error", NIL, listErrorError(list))
    /\ UNCHANGED view

DoSetViewError ==
    /\ kind = "set" /\ view
    /\ \E p \in MapOrders(set) : Observe("Error", NIL, setErrorError(set, p))
    /\ UNCHANGED view

\* Is(composite, t, ts...) on the composite the caller holds.
DoViewIs ==
    /\ view
    /\ \E t \in Targets, ts \in TargetSeqs, p \in Orders :
        Observe("Is", NIL, Bool(Is(IF kind = "list" THEN ListView ELSE SetView,
                                 t, ts, Members(p))))
    /\ UNCHANGED view

Next ==
    \/ DoListAdd \/ DoListNew \/ DoListErrorf \/ DoListWrap \/ DoListWrapf
    \/ DoListClear \/ DoListErr \/ DoListLen \/ DoListEmpty \/ DoListNotEmpty
    \/ DoListHas \/ DoListViewError
    \/ DoSetAdd \/ DoSetNew \/ DoSetErrorf \/ DoSetWrap \/ DoSetWrapf
    \/ DoSetClear \/ DoSetErr \/ DoSetLen \/ DoSetEmpty
    \/ DoSetHas \/ DoSetViewError
    \/ DoViewIs

Spec == Init /\ [][Next]_vars

----------------------------------------------------------------------------
(* Properties of the sequential program.                                   *)

Range(s) == {s[i] : i \in 1..Len(s)}

Inserting == {"Add", "New", "Errorf", "Wrap", "Wrapf"}

\* The arguments JoinErrors is to accept: non-nil, with a non-empty message.
Accepted(errs) == SelectSeq(errs, LAMBDA e : e # NIL /\ MsgOf(e) # EmptyStr)

\* The messages of errs with "; " between each two of them.
RECURSIVE Intercalate(_)
Intercalate(errs) ==
    IF errs = << >> THEN EmptyStr
    ELSE IF Len(errs) = 1 THEN MsgOf(errs[1])
    ELSE MsgOf(errs[1]) \o JoinSep \o Intercalate(Tail(errs))

\* C1: Err() is nil exactly when the container is empty, which is exactly when
\* Len() is 0 (and NotEmpty() is the negation of Empty() for a List); a
\* container just made or just cleared is empty and its Err() is nil; and an
\* Err() call returned what this says.
C1_ErrNilIffEmpty ==
    /\ kind = "list" =>
        /\ (ListErr(list) = NIL) <=> ListEmpty(list)
        /\ ListEmpty(list) <=> (ListLen(list) = 0)
        /\ ListNotEmpty(list) <=> ~ListEmpty(list)
        /\ last.op \in {"NewList", "Clear"} => ListEmpty(list) /\ ListErr(list) = NIL
        /\ last.op = "Err" => ((last.ret = NIL) <=> ListEmpty(list))
    /\ kind = "set" =>
        /\ (SetErr(set) = NIL) <=> SetEmpty(set)
        /\ SetEmpty(set) <=> (SetLen(set) = 0)
        /\ last.op \in {"NewSet", "Clear"} => SetEmpty(set) /\ SetErr(set) = NIL
        /\ last.op = "Err" => ((last.ret = NIL) <=> SetEmpty(set))

\* C1's case: a container that was not empty (the caller got a composite from
\* it) has just been cleared.
C1_Witness == last.op = "Clear" /\ view /\ hist = << >>

\* C2: for a non-empty container, Is(composite, t, ts...) is true exactly when
\* some member m and some x among t and ts have Is(m, x), and
\* container.Has(t, ts...) returns the same, whatever order a range over a
\* Set's map takes.
C2_IsIffSomeMember ==
    \A p \in Orders :
        LET c == Members(p)
            v == IF kind = "list" THEN ListView ELSE SetView
        IN  Len(c) > 0 =>
            \A t \in Targets, ts \in TargetSeqs :
                LET some == \E i \in 1..Len(c), x \in {t} \cup Range(ts) :
                                Is(c[i], x, << >>, c)
                IN  /\ Is(v, t, ts, c) <=> some
                    /\ (IF kind = "list" THEN ListHas(list, t, ts)
                        ELSE SetHas(set, p, t, ts)) <=> some

\* C2's case: Is was called on the composite of a container with two members
\* where the first target matches no member and an extra target matches the
\* second member only.
C2_Witness ==
    /\ last.op = "Is" /\ last.ret = Bool(TRUE)
    /\ \E p \in Orders :
        LET c == Members(p) IN
        /\ Len(c) = 2
        /\ ~Is(c[1], ErrA1, << >>, c) /\ Is(c[2], ErrA1, << >>, c)
        /\ \A i \in 1..2 : ~Is(c[i], NIL, << >>, c)

\* C3: Set.Len() is the number of distinct messages among the errors inserted
\* since the last Clear, each key holds the error inserted last with that
\* message, and an insertion leaves Len() as it is when the message is a key
\* already and adds exactly 1 when it is not.
C3_SetDedup ==
    /\ [](kind = "set" =>
            /\ SetLen(set) = Cardinality({MsgOf(e) : e \in Range(hist)})
            /\ \A i \in 1..Len(hist) :
                 (\A j \in (i + 1)..Len(hist) : MsgOf(hist[j]) # MsgOf(hist[i]))
                     => set[MsgOf(hist[i])] = hist[i])
    /\ [][(kind = "set" /\ last'.op \in Inserting /\ last'.arg # NIL) =>
            LET k == MsgOf(last'.arg) IN
            /\ k \in DOMAIN set => SetLen(set') = SetLen(set)
            /\ k \notin DOMAIN set => SetLen(set') = SetLen(set) + 1
            /\ set'[k] = last'.arg]_vars

\* C3's case: an error was added whose message was a key already, held by
\* another error, and it took that error's place.
C3_Witness ==
    /\ kind = "set" /\ last.op = "Add" /\ last.arg = ErrA1
    /\ Len(hist) = 2 /\ hist[1] = New(StrA, << >>) /\ hist[2] = ErrA1
    /\ SetLen(set) = 1 /\ set[StrA] = ErrA1

\* C4: every List.Add of a non-nil error and every List.New/Errorf/Wrap/Wrapf
\* appends exactly one member at the end: Len() grows by 1, the earlier members
\* keep their positions, duplicates are kept; List.Add(nil) changes nothing.
C4_ListAppends ==
    [][(kind = "list" /\ last'.op \in Inserting) =>
        IF last'.arg = NIL THEN list' = list
        ELSE /\ ListLen(list') = ListLen(list) + 1
             /\ \A i \in 1..Len(list) : list'[i] = list[i]
             /\ list'[Len(list')] = last'.arg]_vars

\* C4's case: the same error has been added twice and is in the list twice.
C4_Witness ==
    /\ kind = "list" /\ last.op = "Add" /\ last.arg = ErrA1
    /\ Len(list) = 2 /\ list[1] = ErrA1 /\ list[2] = ErrA1

\* C5: Error() of the composite of a non-empty container is the "; "-join of
\* the members' non-empty messages (in insertion order for a List, in the order
\* of the range for a Set), with no separator before the first or after the
\* last of them.  Stated of the calls that return.
C5_CompositeIsJoin ==
    (last.op = "Error" /\ last.ret # PANIC) =>
        \E p \in Orders :
            Len(Members(p)) > 0 => last.ret = Str(Intercalate(Accepted(Members(p))))

\* The map a Set holds after the insertions h[i..] into m.
RECURSIVE InsertAll(_, _, _)
InsertAll(m, h, i) ==
    IF i > Len(h) THEN m ELSE InsertAll(MapPut(m, MsgOf(h[i]), h[i]), h, i + 1)

\* The member sequences a range over the container may give now, told from
\* the insertions made since the last Clear.
LiveMembers ==
    IF kind = "list" THEN {hist}
    ELSE LET m == InsertAll(<< >>, hist, 1) IN {MapValues(m, p) : p \in MapOrders(m)}

\* C11: a composite obtained from Err() is live: each later Error() on it is
\* the rendering of the members the container has at that call, whatever was
\* inserted or cleared since the composite was obtained ("" when the container
\* has been cleared), and each later Is on it is decided by those members
\* (false when the container has been cleared).
C11_ViewIsLive ==
    view =>
        /\ last.op = "Error" =>
             \E c \in LiveMembers :
                 last.ret = (IF c = << >> THEN Str(EmptyStr) ELSE CallError(JoinErrors(c)))
        /\ last.op = "Is" =>
             \E c \in LiveMembers, t \in Targets, ts \in TargetSeqs :
                 last.ret = Bool(Has(c, t, ts, c))

\* C11's case: the composite was obtained from a container with members, the
\* container was cleared afterwards, and Error() on the composite returned "".
C11_Witness ==
    view /\ hist = << >> /\ last.op = "Error" /\ last.ret = Str(EmptyStr)

\* C25: the message of a composite is determined by the members: an Error()
\* call that follows an Error() call on the same composite, with no other call
\* in between, returns the same string, for a List and for a Set, also one
\* with two or more members.
C25_SameMessage ==
    [][(last.op = "Error" /\ last'.op = "Error") => last'.ret = last.ret]_vars

\* C26: no container holds a nil member: whatever was added, a nil error and
\* the results of Wrap and Wrapf of a nil cause included, every member of the
\* List and every value of the Set's map is an error.
C26_NoNilMember ==
    /\ \A i \in 1..Len(list) : list[i] # NIL
    /\ \A k \in DOMAIN set : set[k] # NIL

\* C26's case: the List holds the error Wrap made of a nil cause, and Add was
\* then called with a nil error.
C26_Witness ==
    /\ kind = "list" /\ last = Did("Add", NIL, None)
    /\ list = <<Wrap(NIL, StrA, << >>)>>

\* The calls that are to leave the container as it is.
ReadOnlyOps == {"Has", "Err", "Empty", "NotEmpty", "Len", "Error", "Is"}

\* C27: Has, Err, Empty, NotEmpty, Len, Add of a nil error, and Error() and
\* Is on the composite leave the container as it was: the same members in the
\* same order, the same Len().
C27_ReadOnlyFrame ==
    [][(last'.op \in ReadOnlyOps \/ (last'.op = "Add" /\ last'.arg = NIL)) =>
        /\ list' = list /\ set' = set
        /\ ListLen(list') = ListLen(list) /\ SetLen(set') = SetLen(set)]_vars

\* C27's case: Is was called on the composite of a Set with two members and
\* found one that matches.
C27_Witness ==
    /\ kind = "set" /\ view /\ SetLen(set) = 2
    /\ last.op = "Is" /\ last.ret = Bool(TRUE)

\* C8: every call returns normally: no container operation and no Error() call
\* on a composite panics.
C8_NoPanic == last.ret # PANIC


----------------------------------------------------------------------------
(* A direct call of JoinErrors on an argument sequence.                    *)

BoundedSeq(S, n) == UNION {[1..k -> S] : k \in 0..n}

ErrFirst  == New(StrFirst, << >>)
ErrSecond == New(StrSecond, << >>)
\* The arguments: nil, an error with an empty message, a foreign error and
\* library errors.
JoinArgs == {NIL, New(EmptyStr, << >>), ErrA1, New(StrB, << >>), ErrFirst, ErrSecond}

\* The parts of the state a program without a container does not use.
SeqIdle ==
    /\ kind = "none"
    /\ list = << >>
    /\ set = << >>
    /\ view = FALSE
    /\ last = Did("none", NIL, None)
    /\ hist = << >>

InitJoin ==
    /\ args \in BoundedSeq(JoinArgs, MaxArgs)
    /\ joined = NotCalled
    /\ SeqIdle
    /\ SafeIdle
    /\ ErrIdle

DoJoinErrors ==
    /\ joined = NotCalled
    /\ joined' = JoinErrors(args)
    /\ UNCHANGED <<args, contVars, seqVars, safeVars, errVars>>

NextJoin == DoJoinErrors

SpecJoin == InitJoin /\ [][NextJoin]_vars

\* C6: the message of JoinErrors(errs...) is the messages of the accepted
\* arguments in argument order with "; " only between two of them (a nil
\* result has no message: the empty string stands for it).
C6_JoinSeparators ==
    joined # NotCalled =>
        (IF joined = NIL THEN EmptyStr ELSE MsgOf(joined)) = Intercalate(Accepted(args))

\* C7: JoinErrors returns nil exactly when no argument is accepted (non-nil
\* with a non-empty message), the call without arguments included; otherwise
\* it returns a library error, and for the messages "first error" and
\* "second error" its message is "first error; second error".
C7_JoinNilIffNoneAccepted ==
    joined # NotCalled =>
        /\ (joined = NIL) <=> (Accepted(args) = << >>)
        /\ joined # NIL => joined.kind = "errm"
        /\ args = <<ErrFirst, ErrSecond>> =>
               MsgOf(joined) = StrFirst \o JoinSep \o StrSecond

\* C7's case: the call was made with arguments, none of them accepted, and
\* returned nil.
C7_Witness ==
    /\ joined = NIL
    /\ Len(args) = 2 /\ args[1] = New(EmptyStr, << >>) /\ args[2] = NIL


----------------------------------------------------------------------------
(* The concurrent program: goroutines share one SafeList or SafeSet and    *)
(* call its methods.  A method locks the mutex, runs the List or Set        *)
(* method, and unlocks on return (defer).  The List or Set method reads the *)
(* member storage (e.errs) and, when it mutates, writes it back: two steps. *)
(* Error() on a composite obtained from Err() reads the storage the same    *)
(* way, first its length and then its members, with no lock.                *)

Letters == <<"a", "b", "c", "d">>
\* The error goroutine g reports.
SafeErr(g) == Ext(g, <<Letters[g]>>)

Method(name, arg) == [name |-> name, arg |-> arg]
\* The calls goroutine g may make.
SafeOps(g) ==
    {Method("Add", SafeErr(g)), Method("Clear", NIL), Method("Err", NIL)}
        \cup (IF view THEN {Method("Error", NIL)} ELSE {})

Mutating == {"Add", "Clear"}

InitSafe ==
    /\ kind \in {"list", "set"}
    /\ list = << >>
    /\ set = << >>
    /\ view = FALSE
    /\ last = Did("none", NIL, None)
    /\ hist = << >>
    /\ JoinIdle
    /\ SafeIdle
    /\ ErrIdle

\* No goroutine has panicked: a panic ends the program.
Alive == \A g \in Goroutines : pc[g] # "panic"

\* The member storage of the container.
Storage == IF kind = "list" THEN list ELSE set
StorageLen(st) == IF kind = "list" THEN Len(st) ELSE Cardinality(DOMAIN st)

\* Goroutine g returns from its call.
Return(g) ==
    /\ pc' = [pc EXCEPT ![g] = "idle"]
    /\ op' = [op EXCEPT ![g] = None]
    /\ loc' = [loc EXCEPT ![g] = None]
    /\ calls' = [calls EXCEPT ![g] = @ + 1]

\* Goroutine g calls a method of the SafeList/SafeSet, or Error() on the
\* composite.
SafeCall(g) ==
    /\ Alive /\ pc[g] = "idle" /\ calls[g] < MaxCalls
    /\ \E o \in SafeOps(g) :
        /\ op' = [op EXCEPT ![g] = o]
        /\ pc' = [pc EXCEPT ![g] = IF o.name = "Error" THEN "view_len" ELSE "lock"]
    /\ UNCHANGED <<contVars, seqVars, joinVars, errVars, mu, loc, calls>>

\* e.mu.Lock() without the wait for the mutex to be free.
C9_Mutant_MuLock(g) ==
    /\ Alive /\ pc[g] = "lock"
    /\ mu' = g
    /\ pc' = [pc EXCEPT ![g] = "body"]
    /\ UNCHANGED <<contVars, seqVars, joinVars, errVars, op, loc, calls>>

\* e.mu.Lock(): blocks until the mutex is free, then holds it.
MuLock(g) ==
    /\ Alive /\ pc[g] = "lock"
    /\ mu = 0
    /\ mu' = g
    /\ pc' = [pc EXCEPT ![g] = "body"]
    /\ UNCHANGED <<contVars, seqVars, joinVars, errVars, op, loc, calls>>

\* The List/Set method reads e.errs; Err() hands out the composite when the
\* storage is not empty.
Load(g) ==
    /\ Alive /\ pc[g] = "body"
    /\ loc' = [loc EXCEPT ![g] = IF op[g].name \in Mutating THEN Storage ELSE None]
    /\ view' = (view \/ (op[g].name = "Err" /\ StorageLen(Storage) # 0))
    /\ pc' = [pc EXCEPT ![g] = IF op[g].name \in Mutating THEN "store" ELSE "unlock"]
    /\ UNCHANGED <<contVars, last, hist, joinVars, errVars, mu, op, calls>>

\* The List/Set method writes e.errs: append or map assignment for Add, the
\* empty storage for Clear.
Store(g) ==
    /\ Alive /\ pc[g] = "store"
    /\ IF kind = "list"
       THEN /\ list' = (IF op[g].name = "Add" THEN ListAdd(loc[g], op[g].arg)
                        ELSE ListClear(loc[g]))
            /\ UNCHANGED set
       ELSE /\ set' = (IF op[g].name = "Add" THEN SetAdd(loc[g], op[g].arg)
                       ELSE SetClear(loc[g]))
            /\ UNCHANGED list
    /\ pc' = [pc EXCEPT ![g] = "unlock"]
    /\ UNCHANGED <<kind, seqVars, joinVars, errVars, mu, op, loc, calls>>

\* defer e.mu.Unlock(), and the return.
MuUnlock(g) ==
    /\ Alive /\ pc[g] = "unlock"
    /\ mu' = 0
    /\ hist' = CASE op[g].name = "Add"   -> Append(hist, op[g].arg)
                 [] op[g].name = "Clear" -> << >>
                 [] OTHER                -> hist
    /\ Return(g)
    /\ UNCHANGED <<contVars, view, last, joinVars, errVars>>

\* An Error() that takes the mutex before it reads the storage.
C10_Mutant_ViewLen(g) ==
    /\ Alive /\ pc[g] = "view_len"
    /\ mu = 0
    /\ mu' = g
    /\ pc' = [pc EXCEPT ![g] = "view_join"]
    /\ UNCHANGED <<contVars, seqVars, joinVars, errVars, op, loc, calls>>

\* listError.Error / setError.Error, first part: if len(e.errs) == 0 return "".
ViewLen(g) ==
    /\ Alive /\ pc[g] = "view_len"
    /\ IF StorageLen(Storage) = 0
       THEN Return(g)
       ELSE /\ pc' = [pc EXCEPT ![g] = "view_join"]
            /\ UNCHANGED <<op, loc, calls>>
    /\ UNCHANGED <<contVars, seqVars, joinVars, errVars, mu>>

\* listError.Error / setError.Error, second part: JoinErrors over the members
\* as they are now, and Error() on its result.
ViewJoin(g) ==
    /\ Alive /\ pc[g] = "view_join"
    /\ \E p \in Orders :
        IF CallError(JoinErrors(Members(p))) = PANIC
        THEN /\ pc' = [pc EXCEPT ![g] = "panic"]
             /\ UNCHANGED <<op, loc, calls>>
        ELSE Return(g)
    /\ UNCHANGED <<contVars, seqVars, joinVars, errVars, mu>>

NextSafe ==
    \E g \in Goroutines :
        \/ SafeCall(g)
        \/ MuLock(g)
        \/ Load(g)
        \/ Store(g)
        \/ MuUnlock(g)
        \/ ViewLen(g)
        \/ ViewJoin(g)

SpecSafe == InitSafe /\ [][NextSafe]_vars

\* Goroutine g is inside a Safe* method, between Lock and Unlock.
InMethod(g) == pc[g] \in {"body", "store", "unlock"}
\* Goroutine g is reading the storage through the composite.
InView(g) == pc[g] \in {"view_len", "view_join"}

\* C9: at most one goroutine is inside a Safe* method at a time, it holds the
\* mutex, the mutex is free when none is, and no update is lost: whenever no
\* goroutine is inside a method, a SafeList holds exactly the errors of the
\* completed Add calls since the last completed Clear (Len() is their number)
\* and a SafeSet holds one entry for each of their messages.
C9_MutualExclusion ==
    /\ \A g, h \in Goroutines : (InMethod(g) /\ InMethod(h)) => g = h
    /\ \A g \in Goroutines : InMethod(g) => mu = g
    /\ (\A g \in Goroutines : ~InMethod(g)) =>
        /\ mu = 0
        /\ kind = "list" => list = hist /\ ListLen(list) = Len(hist)
        /\ kind = "set" => /\ DOMAIN set = {MsgOf(e) : e \in Range(hist)}
                           /\ SetLen(set) = Cardinality({MsgOf(e) : e \in Range(hist)})

\* C9's case: one goroutine is inside Add, between its read and its write of
\* the storage, while another has called Add and waits for the mutex.
C9_Witness ==
    \E g, h \in Goroutines :
        /\ g # h
        /\ pc[g] = "store" /\ op[g].name = "Add"
        /\ pc[h] = "lock" /\ op[h].name = "Add"

\* C10: Error() on the composite reads the storage without holding the mutex,
\* so the mutex does not keep it apart from a method that mutates.
C10_ViewReadsUnlocked == \A g \in Goroutines : InView(g) => mu # g

\* C10's case: one goroutine is in Error() on the composite, between its read
\* of the length and its read of the members, while another is inside Add or
\* Clear, holding the mutex, about to write the storage.
C10_Witness ==
    \E g, h \in Goroutines :
        /\ pc[g] = "view_join"
        /\ pc[h] = "store" /\ op[h].name \in Mutating /\ mu = h


----------------------------------------------------------------------------
(* Error chains: a caller makes a base error and wraps it, layer by layer,  *)
(* with Wrap, Wrapf or a foreign fmt.Errorf("...: %w", err), and asks Is,   *)
(* Contains, ContainsErr and Check about what it holds.  A List with one    *)
(* member is at hand, whose composite can be the base of a foreign wrapper. *)

StrM == <<"m">>
StrX == <<"x">>
StrZ == <<"z">>
\* errors.New("b"), and errors made apart from every chain
ErrB3 == Ext(3, StrB)
ErrM4 == Ext(4, StrM)
ErrZ5 == Ext(5, StrZ)

ForeignErrs == {ErrA1, ErrB3}
ChainNewInputs == {<<StrA, << >>>>, <<StrB, FieldKV>>}
ChainErrorfInputs == {<<FmtS, <<StrVal(StrA)>>>>}
ChainWrapInputs == {<<StrM, << >>>>, <<StrA, FieldKV>>}
ChainWrapfInputs == {<<FmtS, <<StrVal(StrB)>>>>, <<StrM, <<StrVal(StrA), StrVal(StrB)>>>>}
ContainsInputs == {EmptyStr, StrA, StrM, StrX, WrapSep, StrM \o WrapSep \o StrA, StrZ}

\* err's chain holds no composite.
NoView(err) == erisAs(err, {"listError", "setError"}) = NIL

\* The errors made apart from the chain the caller holds.
ApartErrs == {New(StrM, << >>), New(StrZ, << >>), ErrM4, ErrZ5}
\* The targets asked about: nil, the chain's own errors, and errors made apart.
ChainTargets ==
    {NIL} \cup {e \in Range(hist) \cup {cur} : e.kind \notin {"listError", "setError"}}
          \cup ApartErrs
ChainTargetSeqs ==
    {<< >>} \cup {<<t>> : t \in ChainTargets}
            \cup {<<NIL, t>> : t \in ChainTargets} \cup {<<ErrZ5, t>> : t \in ChainTargets}

InitChain ==
    /\ kind = "list"
    /\ list = <<ErrA1>>
    /\ set = << >>
    /\ view = TRUE
    /\ last = Did("none", NIL, None)
    /\ hist = << >>
    /\ JoinIdle
    /\ SafeIdle
    /\ ErrIdle

\* The calls that ask about the error held and leave it as it is.  They change
\* nothing a later call reads, so a run is followed up to the first of them.
AskOps == {"Is", "Contains", "ContainsErr", "Check"}

\* The caller holds e now; what it held before joins the history.
Holds(e) ==
    /\ last.op \notin AskOps
    /\ cur' = e
    /\ hist' = IF cur = NIL THEN hist ELSE Append(hist, cur)
    /\ UNCHANGED <<contVars, view, joinVars, safeVars>>

\* errors.New(msg)
ChainErrorsNew ==
    /\ cur = NIL
    /\ \E e \in ForeignErrs : Holds(e) /\ last' = Did("errors.New", e.msg, e)

\* New(msg, fields...)
ChainNew ==
    /\ cur = NIL
    /\ \E inp \in ChainNewInputs :
        Holds(New(inp[1], inp[2])) /\ last' = Did("New", inp, New(inp[1], inp[2]))

\* Errorf(msg, args...)
ChainErrorf ==
    /\ cur = NIL
    /\ \E inp \in ChainErrorfInputs :
        Holds(Errorf(inp[1], inp[2])) /\ last' = Did("Errorf", inp, Errorf(inp[1], inp[2]))

\* l.Err() of the List
ChainErr ==
    /\ cur = NIL
    /\ Holds(ListErr(list)) /\ last' = Did("Err", NIL, ListErr(list))

\* Wrap(cur, msg, fields...)
ChainWrap ==
    /\ Len(hist) < MaxDepth /\ NoView(cur)
    /\ \E inp \in ChainWrapInputs :
        /\ Holds(Wrap(cur, inp[1], inp[2]))
        /\ last' = Did("Wrap", <<cur, inp[1], inp[2]>>, Wrap(cur, inp[1], inp[2]))

\* Wrapf(cur, msg, args...)
ChainWrapf ==
    /\ Len(hist) < MaxDepth /\ NoView(cur)
    /\ \E inp \in ChainWrapfInputs :
        /\ Holds(Wrapf(cur, inp[1], inp[2]))
        /\ last' = Did("Wrapf", <<cur, inp[1], inp[2]>>, Wrapf(cur, inp[1], inp[2]))

\* err.Error() of what the caller holds: a composite renders its List.
ErrorText(e) == IF e.kind = "listError" THEN listErrorError(list).s ELSE MsgOf(e)

\* fmt.Errorf("x: %w", cur): a new foreign wrapper, its message is made now.
ChainFmtErrorf ==
    /\ Len(hist) < MaxDepth /\ cur # NIL
    /\ LET w == FmtW(Len(hist) + 10, StrX \o WrapSep \o ErrorText(cur), cur)
       IN  Holds(w) /\ last' = Did("fmt.Errorf", cur, w)

\* A call that leaves what the caller holds as it is.
Asks(o, a, r) ==
    /\ last.op \notin AskOps
    /\ last' = Did(o, a, r)
    /\ UNCHANGED <<contVars, view, hist, joinVars, safeVars, errVars>>

\* Is(cur, t, ts...)
ChainIs ==
    \E t \in ChainTargets, ts \in ChainTargetSeqs :
        Asks("Is", <<t, ts>>, Bool(Is(cur, t, ts, list)))

\* Contains(cur, s)
ChainContains ==
    /\ NoView(cur)
    /\ \E t \in ContainsInputs : Asks("Contains", t, Bool(Contains(cur, t)))

\* ContainsErr(cur, t)
ChainContainsErr ==
    /\ NoView(cur)
    /\ \E t \in {e \in ChainTargets : NoView(e)} :
        Asks("ContainsErr", t, Bool(ContainsErr(cur, t)))

\* Check(cur)
ChainCheck == Asks("Check", cur, Bool(Check(cur)))

NextChain ==
    \/ ChainErrorsNew \/ ChainNew \/ ChainErrorf \/ ChainErr
    \/ ChainWrap \/ ChainWrapf \/ ChainFmtErrorf
    \/ ChainIs \/ ChainContains \/ ChainContainsErr \/ ChainCheck

SpecChain == InitChain /\ [][NextChain]_vars


\* The caller holds the result of a Wrap or Wrapf of an error, as it is or
\* under foreign wrappers.
HoldsWrapped == hist # << >> /\ NoView(cur) /\ erisAs(cur, {"errm"}) # NIL

\* C12: the chain law: what the caller holds after wrapping matches, by Is,
\* every error it was built over (the base and each layer since, through
\* Wrap, Wrapf and foreign %w wrappers), and matches no error made apart from
\* the chain.
C12_ChainLaw ==
    HoldsWrapped =>
        /\ \A b \in Range(hist) : Is(cur, b, << >>, list)
        /\ \A c \in ApartErrs : ~Is(cur, c, << >>, list)


\* C13: Is(nil, nil) is true; for the error x the caller holds, built in any
\* way, Is(nil, x) and Is(x, nil) are false; and an Is call with one target
\* returned what this says.
C13_IsNil ==
    /\ Is(NIL, NIL, << >>, list)
    /\ cur # NIL => ~Is(NIL, cur, << >>, list) /\ ~Is(cur, NIL, << >>, list)
    /\ (last.op = "Is" /\ last.arg[2] = << >>) =>
        /\ (cur = NIL /\ last.arg[1] = NIL) => last.ret = Bool(TRUE)
        /\ (cur = NIL /\ last.arg[1] # NIL) => last.ret = Bool(FALSE)
        /\ (cur # NIL /\ last.arg[1] = NIL) => last.ret = Bool(FALSE)

\* C13's case: the caller holds an error wrapped twice and Is with the nil
\* target alone returned false.
C13_Witness ==
    /\ Len(hist) = 2 /\ cur # NIL
    /\ last = Did("Is", <<NIL, << >>>>, Bool(FALSE))


\* Chain equality of err and target, each taken down to its eris form.
ChainEqual(err, target) == erisIs(unwrap(err), unwrap(target))

\* C14: when the error held is not a composite of a List or Set, an Is call
\* returned true exactly when the error is chain-equal to the first target or
\* to one of the further targets, in whatever order and number they came.
C14_IsAnyTarget ==
    (last.op = "Is" /\ cur.kind \notin {"listError", "setError"}) =>
        last.ret = Bool(\E x \in {last.arg[1]} \cup Range(last.arg[2]) : ChainEqual(cur, x))


\* C19: Wrap of a non-nil cause returned an error whose message is the message
\* given, with its fields, then ": ", then the message of the cause; Wrapf with
\* placeholders likewise, with the formatted message.
C19_WrapMessage ==
    /\ (last.op = "Wrap" /\ last.arg[1] # NIL) =>
        MsgOf(last.ret) =
            buildErrorMessage(last.arg[2], last.arg[3]) \o WrapSep \o MsgOf(last.arg[1])
    /\ (last.op = "Wrapf" /\ last.arg[1] # NIL /\ CountPercent(last.arg[2]) > 0) =>
        LET sep == separateArgsAndFields(last.arg[2], last.arg[3]) IN
        MsgOf(last.ret) =
            Sprintf(buildErrorMessage(last.arg[2], sep[2]), sep[1])
                \o WrapSep \o MsgOf(last.arg[1])


\* C20: Contains returned false for a nil error and otherwise whether the text
\* asked for is part of the message of the error held, its whole chain
\* rendered; ContainsErr returned false for a nil target and otherwise what
\* Contains returns for the target's message; and when the error held is the
\* Wrap of a cause under a non-empty message, it contains the cause and
\* itself, and the cause does not contain it.
C20_Contains ==
    /\ last.op = "Contains" =>
        last.ret = Bool(cur # NIL /\ Substring(last.arg, MsgOf(cur)))
    /\ last.op = "ContainsErr" =>
        last.ret = Bool(last.arg # NIL /\ Contains(cur, MsgOf(last.arg)))
    /\ (last.op = "Wrap" /\ last.arg[1] # NIL /\ last.arg[2] # EmptyStr) =>
        /\ ContainsErr(cur, last.arg[1])
        /\ ContainsErr(cur, cur)
        /\ ~ContainsErr(last.arg[1], cur)


\* C21: Check returned true exactly when the error held is itself a library
\* Error Value (made by New, Errorf, Wrap or Wrapf): false for nil, for a
\* foreign error, for the composite of a List, and for a foreign wrapper, also
\* one whose chain holds a library error.
C21_CheckOwnType ==
    last.op = "Check" => last.ret = Bool(cur.kind = "errm")

\* C24: Is is reflexive: the error held, when it is a library error (the
\* result of New, Errorf, Wrap or Wrapf) or the composite of the List, matches
\* itself.
C24_IsReflexive ==
    cur.kind \in {"errm", "listError"} => Is(cur, cur, << >>, list)


----------------------------------------------------------------------------
(* The construction API as functions: one call of New, Errorf, Wrap or      *)
(* Wrapf on a message, a sequence of arguments and, for the last two, a     *)
(* cause.                                                                   *)

StrK == <<"k">>
StrPercent == <<"%">>
\* The values handed as fields or format arguments: two strings, one of them
\* a percent sign, and an int.
BuildVals == {StrVal(StrK), StrVal(StrPercent), IntVal(<<"1">>)}
\* The messages: without a placeholder, with one, with two, and "%%".
BuildMsgs == {StrA, FmtS, FmtS \o FmtS, <<"%", "%">>}
BuildCauses == {NIL, ErrA1, New(StrB, << >>)}

InitBuild ==
    /\ SeqIdle
    /\ JoinIdle
    /\ SafeIdle
    /\ ErrIdle

\* The one call of a run returns e.
Built(o, a, e) ==
    /\ cur' = e
    /\ last' = Did(o, a, e)
    /\ UNCHANGED <<contVars, view, hist, joinVars, safeVars>>

BuildNew ==
    /\ last.op = "none"
    /\ \E msg \in BuildMsgs, a \in BoundedSeq(BuildVals, MaxFields) :
        Built("New", <<NIL, msg, a>>, New(msg, a))

BuildErrorf ==
    /\ last.op = "none"
    /\ \E msg \in BuildMsgs, a \in BoundedSeq(BuildVals, MaxFields) :
        Built("Errorf", <<NIL, msg, a>>, Errorf(msg, a))

BuildWrap ==
    /\ last.op = "none"
    /\ \E err \in BuildCauses, msg \in BuildMsgs, a \in BoundedSeq(BuildVals, MaxFields) :
        Built("Wrap", <<err, msg, a>>, Wrap(err, msg, a))

BuildWrapf ==
    /\ last.op = "none"
    /\ \E err \in BuildCauses, msg \in BuildMsgs, a \in BoundedSeq(BuildVals, MaxFields) :
        Built("Wrapf", <<err, msg, a>>, Wrapf(err, msg, a))

NextBuild == BuildNew \/ BuildErrorf \/ BuildWrap \/ BuildWrapf

SpecBuild == InitBuild /\ [][NextBuild]_vars

\* The field pairs of a sequence as text: " key=value" for each complete pair
\* with a string key, in order.
RECURSIVE PairsText(_)
PairsText(f) ==
    IF Len(f) < 2 THEN EmptyStr
    ELSE (IF f[1].t = "string" THEN <<" ">> \o f[1].s \o <<"=">> \o f[2].s ELSE EmptyStr)
         \o PairsText(SubSeq(f, 3, Len(f)))

\* C15: Errorf splits its arguments by the number N of '%' in the message:
\* for N = 0 the message is msg as it is with all arguments as field pairs;
\* for 0 < N <= len(args) it is msg formatted with the first N arguments,
\* followed by the other arguments as field pairs; for len(args) < N all
\* arguments are format arguments and no field pair is rendered.
C15_ErrorfSplit ==
    last.op = "Errorf" =>
        LET msg == last.arg[2]
            a   == last.arg[3]
            N   == CountPercent(msg)
        IN  /\ N = 0 => MsgOf(last.ret) = msg \o PairsText(a)
            /\ (0 < N /\ N <= Len(a)) =>
                 MsgOf(last.ret) =
                     Sprintf(msg, SubSeq(a, 1, N)) \o PairsText(SubSeq(a, N + 1, Len(a)))
            /\ Len(a) < N =>
                 MsgOf(last.ret) = (IF a = << >> THEN msg ELSE Sprintf(msg, a))


C17_NilCause ==
    /\ (last.op = "Wrap" /\ last.arg[1] = NIL) =>
        /\ last.ret # NIL /\ last.ret.kind = "errm"
        /\ MsgOf(last.ret) = MsgOf(New(last.arg[2], last.arg[3]))
    /\ (last.op = "Wrapf" /\ last.arg[1] = NIL) =>
        /\ last.ret # NIL /\ last.ret.kind = "errm"
        /\ MsgOf(last.ret) = MsgOf(Errorf(last.arg[2], last.arg[3]))

\* C17's case: Wrap was called on a nil cause with a message and a field pair
\* and returned the error New makes of them.
C17_Witness ==
    /\ last.op = "Wrap" /\ last.arg = <<NIL, StrA, <<StrVal(StrK), IntVal(<<"1">>)>>>>
    /\ last.ret = New(StrA, <<StrVal(StrK), IntVal(<<"1">>)>>)
    /\ MsgOf(cur) = StrA \o <<" ", "k", "=", "1">>

\* C18: the message New makes is the base as it is for fewer than 2 fields,
\* else the base followed by " key=value" for each complete pair with a string
\* key, in order; a pair whose key is no string adds nothing and the pairs
\* after it are rendered; a sequence of odd length gives what it gives without
\* its last element.
C18_FieldFormatter ==
    last.op = "New" =>
        LET base == last.arg[2]
            f    == last.arg[3]
        IN  /\ Len(f) < 2 => MsgOf(last.ret) = base
            /\ MsgOf(last.ret) = base \o PairsText(f)
            /\ buildErrorMessage(base, f) = base \o PairsText(f)
            /\ Len(f) % 2 = 1 =>
                 MsgOf(last.ret) = MsgOf(New(base, SubSeq(f, 1, Len(f) - 1)))

\* C18's case: New was called with a pair whose key is an int, then a pair
\* with a string key, then one more element: only the second pair is rendered.
C18_Witness ==
    /\ last.op = "New"
    /\ last.arg[3] = <<IntVal(<<"1">>), StrVal(StrK), StrVal(StrK), IntVal(<<"1">>),
                       StrVal(StrK)>>
    /\ MsgOf(last.ret) = last.arg[2] \o <<" ", "k", "=", "1">>


----------------------------------------------------------------------------
(* Containers that hold composites: a caller owns one List and one Set and  *)
(* may add to either the composite it gets from Err() of either, the        *)
(* container's own included.  A composite holds a pointer to its container, *)
(* so Error() and Is on it read the members the container has at the call,  *)
(* and a member that is a composite is asked in turn: a nested call, which  *)
(* takes a frame of the goroutine's stack.  Each operator below gives the   *)
(* set of outcomes a call may have (a range over the Set's map may take any *)
(* order), with l the members of the List and m the map of the Set.         *)

\* The most members the List and the Set of this program get.
MaxNest == 2
\* The nested calls the goroutine's stack has room for; the runtime ends the
\* program when a call needs more (fatal error: stack overflow).
MaxStack == 4

\* What a call yields that the runtime ended for want of stack.
FATAL == [kind |-> "fatal"]

RECURSIVE nestError(_, _, _, _)
RECURSIVE nestJoinErrors(_, _, _, _, _, _)
RECURSIVE nestIs(_, _, _, _, _)
RECURSIVE nestHas(_, _, _, _, _, _)

\* e.Error() as call number d + 1 on the stack: listError.Error and
\* setError.Error return "" for an empty container and JoinErrors(members...)
\* .Error() otherwise; any other error has its message.
nestError(e, l, m, d) ==
    IF e.kind \notin {"listError", "setError"} THEN {Str(MsgOf(e))}
    ELSE IF d >= MaxStack THEN {FATAL}
    ELSE IF e.kind = "listError"
         THEN IF Len(l) = 0 THEN {Str(EmptyStr)}
              ELSE nestJoinErrors(l, 1, << >>, l, m, d + 1)
         ELSE IF Cardinality(DOMAIN m) = 0 THEN {Str(EmptyStr)}
              ELSE UNION {nestJoinErrors(MapValues(m, p), 1, << >>, l, m, d + 1) :
                          p \in MapOrders(m)}

\* JoinErrors(errs...).Error(), the loop at errs[i] with b built so far: each
\* err.Error() is a call; the end is New(string(b)).Error(), or Error() on the
\* nil JoinErrors returns for an empty b.
nestJoinErrors(errs, i, b, l, m, d) ==
    IF i > Len(errs) THEN {IF Len(b) > 0 THEN Str(b) ELSE PANIC}
    ELSE IF errs[i] = NIL THEN nestJoinErrors(errs, i + 1, b, l, m, d)
    ELSE UNION {IF msg.kind # "string" THEN {msg}
                ELSE IF msg.s = EmptyStr THEN nestJoinErrors(errs, i + 1, b, l, m, d)
                ELSE nestJoinErrors(errs, i + 1,
                                    (IF i > 1 THEN b \o JoinSep ELSE b) \o msg.s, l, m, d) :
                msg \in nestError(errs[i], l, m, d)}

\* Is(err, target) as call number d + 1 on the stack, for a target that is no
\* composite: a composite in err's chain hands the question to its container.
nestIs(err, target, l, m, d) ==
    IF erisAs(err, {"setError"}) # NIL
    THEN IF d >= MaxStack THEN {FATAL}
         ELSE UNION {nestHas(MapValues(m, p), 1, target, l, m, d + 1) : p \in MapOrders(m)}
    ELSE IF erisAs(err, {"listError"}) # NIL
    THEN IF d >= MaxStack THEN {FATAL}
         ELSE nestHas(l, 1, target, l, m, d + 1)
    ELSE {Bool(erisIs(unwrap(err), unwrap(target)))}

\* (*List).Has / (*Set).Has with one target, the loop at members[i].
nestHas(members, i, target, l, m, d) ==
    IF i > Len(members) THEN {Bool(FALSE)}
    ELSE UNION {IF r = Bool(FALSE) THEN nestHas(members, i + 1, target, l, m, d) ELSE {r} :
                r \in nestIs(members[i], target, l, m, d)}

\* (*Set).Add(err): the key is err.Error(); each outcome is the map after the
\* call and what ended the call, None for a return.
nestSetAdd(err, l, m) ==
    IF err = NIL THEN {[errs |-> m, ret |-> None]}
    ELSE {IF key.kind = "string" THEN [errs |-> MapPut(m, key.s, err), ret |-> None]
          ELSE [errs |-> m, ret |-> key] :
          key \in nestError(err, l, m, 0)}

\* The errors added: foreign and library errors, and what Err() of the List
\* and of the Set returns (nil for an empty one).
NestErrs == {ErrA1, New(StrB, << >>), ListErr(list), SetErr(set)}
NestTargets == {NIL, ErrA1, New(StrB, << >>), New(StrZ, << >>)}

\* NewList() and NewSet()
InitNest ==
    /\ kind = "nest"
    /\ list = << >>
    /\ set = << >>
    /\ view = FALSE
    /\ last = Did("none", NIL, None)
    /\ hist = << >>
    /\ JoinIdle
    /\ SafeIdle
    /\ ErrIdle

\* The program runs until a call panics or the runtime ends it.
NestRunning == last.ret \notin {PANIC, FATAL}

\* A call on container on ("list" or "set") returned r.
NestDid(o, on, a, r) ==
    /\ last' = Did(o, <<on, a>>, r)
    /\ UNCHANGED <<kind, view, hist, joinVars, safeVars, errVars>>

\* l.Add(e)
NestListAdd ==
    /\ NestRunning /\ Len(list) < MaxNest
    /\ \E e \in NestErrs :
        /\ list' = ListAdd(list, e)
        /\ NestDid("Add", "list", e, None)
    /\ UNCHANGED set

\* s.Add(e)
NestSetAdd ==
    /\ NestRunning /\ Cardinality(DOMAIN set) < MaxNest
    /\ \E e \in NestErrs : \E r \in nestSetAdd(e, list, set) :
        /\ set' = r.errs
        /\ NestDid("Add", "set", e, r.ret)
    /\ UNCHANGED list

\* l.Clear()
NestListClear ==
    /\ NestRunning
    /\ list' = ListClear(list)
    /\ NestDid("Clear", "list", NIL, None)
    /\ UNCHANGED set

\* s.Clear()
NestSetClear ==
    /\ NestRunning
    /\ set' = SetClear(set)
    /\ NestDid("Clear", "set", NIL, None)
    /\ UNCHANGED list

\* l.Len() / s.Len()
NestLen ==
    /\ NestRunning
    /\ \/ NestDid("Len", "list", NIL, IntRet(ListLen(list)))
       \/ NestDid("Len", "set", NIL, IntRet(SetLen(set)))
    /\ UNCHANGED <<list, set>>

\* l.Err() / s.Err()
NestErr ==
    /\ NestRunning
    /\ \/ NestDid("Err", "list", NIL, ListErr(list))
       \/ NestDid("Err", "set", NIL, SetErr(set))
    /\ UNCHANGED <<list, set>>

\* l.Err().Error() / s.Err().Error() of a container that is not empty
NestError ==
    /\ NestRunning
    /\ \/ /\ ListErr(list) # NIL
          /\ \E r \in nestError(ListErr(list), list, set, 0) : NestDid("Error", "list", NIL, r)
       \/ /\ SetErr(set) # NIL
          /\ \E r \in nestError(SetErr(set), list, set, 0) : NestDid("Error", "set", NIL, r)
    /\ UNCHANGED <<list, set>>

\* l.Has(t) / s.Has(t)
NestHas ==
    /\ NestRunning
    /\ \E t \in NestTargets :
        \/ \E r \in nestHas(list, 1, t, list, set, 0) : NestDid("Has", "list", t, r)
        \/ \E p \in MapOrders(set) :
             \E r \in nestHas(MapValues(set, p), 1, t, list, set, 0) : NestDid("Has", "set", t, r)
    /\ UNCHANGED <<list, set>>

\* Is(l.Err(), t) / Is(s.Err(), t) of a container that is not empty
NestIs ==
    /\ NestRunning
    /\ \E t \in NestTargets :
        \/ /\ ListErr(list) # NIL
           /\ \E r \in nestIs(ListErr(list), t, list, set, 0) : NestDid("Is", "list", t, r)
        \/ /\ SetErr(set) # NIL
           /\ \E r \in nestIs(SetErr(set), t, list, set, 0) : NestDid("Is", "set", t, r)
    /\ UNCHANGED <<list, set>>

NextNest ==
    \/ NestListAdd \/ NestSetAdd \/ NestListClear \/ NestSetClear
    \/ NestLen \/ NestErr \/ NestError \/ NestHas \/ NestIs

SpecNest == InitNest /\ [][NextNest]_vars

\* C22: every call returns: no Add, Has, Err, Len or Clear of a container, no
\* Error() on a composite and no Is ends for want of stack after calls nested
\* without end, whatever the containers hold, a composite of the container
\* itself or of the other container included.
C22_Terminates == last.ret # FATAL


----------------------------------------------------------------------------
(* The lock discipline when composites are among the errors added:          *)
(* goroutines share one SafeList or SafeSet and call Add, Err and Has; once *)
(* Err() has handed out the composite, Add may be called with it.  The      *)
(* composite points to the List or Set inside the Safe* container, whose    *)
(* methods take no lock.  A method body runs under the mutex and is one     *)
(* step here.                                                               *)

\* The composite Err() of the shared container returns when it is not empty.
SharedView == IF kind = "list" THEN ListView ELSE SetView

\* The calls goroutine g may make.
LockOps(g) ==
    {Method("Add", SafeErr(g)), Method("Err", NIL), Method("Has", SafeErr(1))}
        \cup (IF view THEN {Method("Add", SharedView)} ELSE {})

\* The program runs: no goroutine has panicked and the runtime has not ended
\* it for want of stack.
LockAlive == \A g \in Goroutines : pc[g] \notin {"panic", "fatal"}

\* Where a method body that ended with r goes on: to the deferred Unlock, or
\* nowhere when the runtime ended the program.
AfterBody(r) == IF r = FATAL THEN "fatal" ELSE IF r = PANIC THEN "panic" ELSE "unlock"

\* Goroutine g calls a method of the SafeList/SafeSet.
LockCall(g) ==
    /\ LockAlive /\ pc[g] = "idle" /\ calls[g] < MaxCalls
    /\ \E o \in LockOps(g) :
        /\ op' = [op EXCEPT ![g] = o]
        /\ pc' = [pc EXCEPT ![g] = "lock"]
    /\ UNCHANGED <<contVars, seqVars, joinVars, errVars, mu, loc, calls>>

\* The List or Set method the Safe* method calls under the mutex.
LockBody(g) ==
    /\ LockAlive /\ pc[g] = "body"
    /\ CASE op[g].name = "Add" /\ kind = "list" ->
              /\ list' = ListAdd(list, op[g].arg)
              /\ pc' = [pc EXCEPT ![g] = "unlock"]
              /\ UNCHANGED <<set, view>>
         [] op[g].name = "Add" /\ kind = "set" ->
              /\ \E r \in nestSetAdd(op[g].arg, list, set) :
                    /\ set' = r.errs
                    /\ pc' = [pc EXCEPT ![g] = AfterBody(r.ret)]
              /\ UNCHANGED <<list, view>>
         [] op[g].name = "Err" ->
              /\ view' = (view \/ StorageLen(Storage) # 0)
              /\ pc' = [pc EXCEPT ![g] = "unlock"]
              /\ UNCHANGED <<list, set>>
         [] op[g].name = "Has" ->
              /\ \E p \in Orders : \E r \in nestHas(Members(p), 1, op[g].arg, list, set, 0) :
                    pc' = [pc EXCEPT ![g] = AfterBody(r)]
              /\ UNCHANGED <<list, set, view>>
    /\ UNCHANGED <<kind, last, hist, joinVars, errVars, mu, op, loc, calls>>

NextLock ==
    \E g \in Goroutines :
        \/ LockCall(g)
        \/ MuLock(g)
        \/ LockBody(g)
        \/ MuUnlock(g)

\* The scheduler runs every goroutine that can take a step, and a goroutine
\* waiting for the mutex gets it when it is released again and again
\* (sync.Mutex hands the lock to a waiter that starves).
SpecLock ==
    /\ InitSafe
    /\ [][NextLock]_vars
    /\ \A g \in Goroutines :
        WF_vars(LockBody(g)) /\ WF_vars(MuUnlock(g)) /\ SF_vars(MuLock(g))

\* C23: no goroutine asks for the mutex while it holds it, and every call that
\* asks for the mutex gets it, returns, and leaves the mutex released, also
\* when the error added is the composite of the container itself.
C23_DeadlockFree ==
    /\ [](\A g \in Goroutines : pc[g] = "lock" => mu # g)
    /\ \A g \in Goroutines : (pc[g] = "lock") ~> (pc[g] = "idle" /\ mu # g)


============================================================================
